---------------------------- MODULE Spec2Model ----------------------------
(***************************************************************************)
(* remove_test_modules.py: strip #[cfg(test)] modules from Rust sources.   *)
(*                                                                         *)
(* Three specifications share this module.                                 *)
(*   Spec     one file, remove_test_modules() followed line by line        *)
(*            (one action per iteration of the scan loop), applied         *)
(*            twice in a row to the same file.                             *)
(*   SpecRun  main(): discovery over a directory tree, then the loop over  *)
(*            rust_files, each call of remove_test_modules() one action.   *)
(*   SpecLive either of the two run once, under weak fairness of its       *)
(*            steps, for termination.                                      *)
(*                                                                         *)
(* Text is a sequence of tokens.  "#" stands for the twelve characters     *)
(* #[cfg(test)], " " for a whitespace character, "x" for any other         *)
(* character that is neither a brace nor a newline, "\n" for the newline.  *)
(***************************************************************************)
EXTENDS Integers, Sequences, FiniteSets, TLC

VARIABLES
    \* ---- the file system
    disk,             \* Spec: the text of the one file being processed
    \* ---- locals of remove_test_modules (Spec)
    pc,               \* "start" | "scan" | "done"
    content,          \* the text read at line 16 (= original_content)
    lines,            \* content.split('\n')
    new_lines,        \* the lines kept so far
    i,                \* the cursor, 0-based as in the source
    in_test_module,
    brace_count,
    ret,              \* the value returned (meaningful when pc = "done")
    \* ---- history of the current call (Spec)
    kept,             \* the values of i at which line 60 appended lines[i]
    seen,             \* the values of i the loop body was entered with
    neg_at,           \* the value of i at which an iteration first ended inside
                      \* a test block with brace_count < 0, or -1
    wrote,            \* whether line 68 wrote the file in this call
    run,              \* which application to the file this is: 1 or 2
    disk0,            \* the text of the file before the first application
    \* ---- the file system of SpecRun
    tree,             \* the paths under root_dir that exist, as leaves
    link,             \* whether tests/t.rs is a symbolic link to the crate's lib.rs
    store,            \* the text of every regular file, by path
    \* ---- locals of main (SpecRun)
    main_pc,          \* "idle" | "discover" | "process" | "done" | "crashed"
    crate_dirs,       \* what root_dir.glob("crates/*") has yet to yield
    patterns,         \* the patterns of line 94 not yet globbed
    rust_files,
    idx,              \* the position of the loop of line 101 in rust_files, 1-based
    processed_count,
    modified_count,
    \* ---- history of the run (SpecRun)
    store0,           \* store before the run
    log,              \* one record per iteration of the loop of line 101
    errors            \* I/O errors raised so far

scanVars == <<disk, pc, content, lines, new_lines, i, in_test_module,
              brace_count, ret, kept, seen, neg_at, wrote, run, disk0>>

runVars == <<tree, link, store, main_pc, crate_dirs, patterns, rust_files,
             idx, processed_count, modified_count, store0, log, errors>>

vars == <<scanVars, runVars>>

-----------------------------------------------------------------------------
(* Bounds *)

MaxLines == 4      \* lines of a file drawn freely from LineKinds
MaxNest  == 2      \* nested brace pairs inside a generated test block
MaxGap   == 2      \* ordinary lines before, between and after generated blocks
MaxErrors == 1     \* I/O errors raised during one run of main
MaxLiveLines == 3  \* lines of a file drawn freely from LineKinds in SpecLive

-----------------------------------------------------------------------------
(* Text *)

RECURSIVE JoinTerminated(_)
\* Mutant of Join: every line is followed by a newline, as
\* ''.join(l + '\n' for l in ls) would give.
JoinTerminated(ls) ==
    IF ls = <<>> THEN <<>>
    ELSE ls[1] \o <<"\n">> \o JoinTerminated(Tail(ls))

RECURSIVE Join(_)
\* '\n'.join(ls)
Join(ls) ==
    IF ls = <<>> THEN <<>>
    ELSE IF Len(ls) = 1 THEN ls[1]
    ELSE ls[1] \o <<"\n">> \o Join(Tail(ls))

RECURSIVE SplitFrom(_, _)
\* s.split('\n'), with cur the line being accumulated
SplitFrom(s, cur) ==
    IF s = <<>> THEN <<cur>>
    ELSE IF Head(s) = "\n" THEN <<cur>> \o SplitFrom(Tail(s), <<>>)
    ELSE SplitFrom(Tail(s), Append(cur, Head(s)))

Split(s) == SplitFrom(s, <<>>)

\* Mutant of MatchAnnotation: re.search instead of re.match, the annotation
\* anywhere in the line.
SearchAnnotation(line) == \E k \in 1..Len(line) : line[k] = "#"

\* Mutant of MatchAnnotation: the pattern without its \s*, so that an
\* indented annotation is not matched.
MatchAnnotationUnindented(line) == line # <<>> /\ line[1] = "#"

\* re.match(r'^\s*#\[cfg\(test\)\]', line)
MatchAnnotation(line) ==
    \E k \in 1..Len(line) :
        /\ line[k] = "#"
        /\ \A j \in 1..(k - 1) : line[j] = " "

-----------------------------------------------------------------------------
(* The scan loop of remove_test_modules *)

RECURSIVE ForCharFirstClose(_, _, _)
\* Mutant of ForChar: the first close-brace ends the module whatever the
\* depth, as a scan without brace counting would.
ForCharFirstClose(line, k, st) ==
    IF k > Len(line) THEN st
    ELSE IF line[k] = "{"
        THEN ForCharFirstClose(line, k + 1, [st EXCEPT !.brace_count = @ + 1])
    ELSE IF line[k] = "}"
        THEN ForCharFirstClose(line, k + 1,
                               [brace_count |-> 0, in_test_module |-> FALSE,
                                i |-> st.i + 1])
    ELSE ForCharFirstClose(line, k + 1, st)

RECURSIVE ForCharZeroAfterAny(_, _, _)
\* Mutant of ForChar: the test for depth 0 follows the if/elif, so that an
\* open-brace that brings a negative depth to 0 ends the module as well.
ForCharZeroAfterAny(line, k, st) ==
    IF k > Len(line) THEN st
    ELSE IF line[k] \in {"{", "}"}
        THEN LET d == st.brace_count + (IF line[k] = "{" THEN 1 ELSE -1) IN
             IF d = 0
             THEN ForCharZeroAfterAny(line, k + 1,
                          [brace_count |-> 0, in_test_module |-> FALSE,
                           i |-> st.i + 1])
             ELSE ForCharZeroAfterAny(line, k + 1,
                                      [st EXCEPT !.brace_count = d])
    ELSE ForCharZeroAfterAny(line, k + 1, st)

RECURSIVE ForChar(_, _, _)
\* The loop `for char in line` from character k on.  st holds the three
\* locals it assigns.  The `continue` of line 53 continues this loop, not
\* the while loop: the rest of the line is still counted.
ForChar(line, k, st) ==
    IF k > Len(line) THEN st
    ELSE IF line[k] = "{"
        THEN ForChar(line, k + 1, [st EXCEPT !.brace_count = @ + 1])
    ELSE IF line[k] = "}"
        THEN IF st.brace_count - 1 = 0
             THEN ForChar(line, k + 1,
                          [brace_count |-> 0, in_test_module |-> FALSE,
                           i |-> st.i + 1])
             ELSE ForChar(line, k + 1, [st EXCEPT !.brace_count = @ - 1])
    ELSE ForChar(line, k + 1, st)

\* Mutant of WhileBody: the annotation branch without its `i += 1`.
WhileBodyNoAdvance(ls, st) ==
    LET line == ls[st.i + 1] IN
    IF MatchAnnotation(line)
    THEN [brace_count |-> 0, in_test_module |-> TRUE, i |-> st.i,
          keep |-> FALSE]
    ELSE IF st.in_test_module
    THEN LET after == ForChar(line, 1, st) IN
         [brace_count |-> after.brace_count,
          in_test_module |-> after.in_test_module,
          i |-> after.i + 1, keep |-> FALSE]
    ELSE [brace_count |-> st.brace_count, in_test_module |-> FALSE,
          i |-> st.i + 1, keep |-> TRUE]

\* One iteration of `while i < len(lines)`, as a function of the locals.
\* The result's `keep` says whether line 60 appended the line.
WhileBody(ls, st) ==
    LET line == ls[st.i + 1] IN
    IF MatchAnnotation(line)
    THEN [brace_count |-> 0, in_test_module |-> TRUE, i |-> st.i + 1,
          keep |-> FALSE]
    ELSE IF st.in_test_module
    THEN LET after == ForChar(line, 1, st) IN
         [brace_count |-> after.brace_count,
          in_test_module |-> after.in_test_module,
          i |-> after.i + 1, keep |-> FALSE]
    ELSE [brace_count |-> st.brace_count, in_test_module |-> FALSE,
          i |-> st.i + 1, keep |-> TRUE]

Locals == [brace_count |-> brace_count, in_test_module |-> in_test_module,
           i |-> i]

InitialLocals == [brace_count |-> 0, in_test_module |-> FALSE, i |-> 0]

RECURSIVE WhileLoop(_, _, _)
\* Lines 31-61 run to the end: the final new_lines.
WhileLoop(ls, st, out) ==
    IF st.i >= Len(ls) THEN out
    ELSE LET nxt == WhileBody(ls, st) IN
         WhileLoop(ls,
                   [brace_count |-> nxt.brace_count,
                    in_test_module |-> nxt.in_test_module, i |-> nxt.i],
                   IF nxt.keep THEN Append(out, ls[st.i + 1]) ELSE out)

\* Lines 25-63: new_content as a function of content.
NewContent(text) == Join(WhileLoop(Split(text), InitialLocals, <<>>))

-----------------------------------------------------------------------------
(* Input files of Spec *)

LineKinds ==
    { <<"x">>,               \* use foo;
      <<"x", "{", "}">>,     \* fn real_code() {}
      <<"#">>,               \* #[cfg(test)]
      <<" ", "#">>,          \*     #[cfg(test)]
      <<"x", "#">>,          \* // #[cfg(test)]
      <<"x", "{">>,          \* mod tests {
      <<"}">>,               \* }
      <<"}", "{", "}">>,     \* } impl T {}
      <<>> }                 \* an empty line

SeqsUpTo(S, n) == UNION { [1..m -> S] : m \in 0..n }

RECURSIVE Text(_)
\* The text of a file whose lines are ls (at least one line; no ls gives
\* the empty file, as does one empty line).
Text(ls) ==
    IF Len(ls) = 0 THEN <<>>
    ELSE IF Len(ls) = 1 THEN Head(ls)
    ELSE Head(ls) \o <<"\n">> \o Text(Tail(ls))

SmallFiles == { Text(ls) : ls \in SeqsUpTo(LineKinds, MaxLines) }

Annotation == <<"#">>
OpenLine   == <<"x", "{">>
CloseLine  == <<"}">>
PairLine   == <<"x", "{", "}">>

\* Lines of ordinary code around the generated test blocks.
Ordinary == { <<"x">>, PairLine }

Repeat(line, n) == [k \in 1..n |-> line]

\* mod tests { mod a { mod b { ... } } }: n pairs nested in each other
BodyDeep(n) ==
    <<OpenLine>> \o Repeat(OpenLine, n) \o Repeat(CloseLine, n) \o <<CloseLine>>

\* mod tests { fn a() {} fn b() {} ... }: n pairs one after the other
BodyFlat(n) == <<OpenLine>> \o Repeat(PairLine, n) \o <<CloseLine>>

\* The module lines of a generated test block; <<PairLine>> is `mod tests {}`.
Bodies ==
    { BodyDeep(n) : n \in 0..MaxNest } \cup { BodyFlat(n) : n \in 0..MaxNest }
        \cup { <<PairLine>> }

Gaps == SeqsUpTo(Ordinary, MaxGap)

OneBlockFiles ==
    { Text(pre \o <<Annotation>> \o b \o post) :
        pre \in Gaps, b \in Bodies, post \in Gaps }

TwoBlockFiles ==
    { Text(<<Annotation>> \o b1 \o mid \o <<Annotation>> \o b2) :
        b1 \in Bodies, mid \in Gaps, b2 \in Bodies }

\* a test block whose module body holds an annotated module of its own
NestedFiles ==
    { Text(<<Annotation, OpenLine, Annotation>> \o b \o post \o <<CloseLine>>) :
        b \in Bodies, post \in Gaps }

Files == SmallFiles \cup OneBlockFiles \cup TwoBlockFiles \cup NestedFiles

-----------------------------------------------------------------------------
(* Spec: remove_test_modules on one file *)

\* The state before remove_test_modules is called on a file of `files`.
InitFrom(files) ==
    /\ disk \in files
    /\ pc = "start"
    /\ content = <<>>
    /\ lines = <<>>
    /\ new_lines = <<>>
    /\ i = 0
    /\ in_test_module = FALSE
    /\ brace_count = 0
    /\ ret = FALSE
    /\ kept = <<>>
    /\ seen = <<>>
    /\ neg_at = -1
    /\ wrote = FALSE
    /\ run = 1
    /\ disk0 = disk
    /\ tree = {}
    /\ link = FALSE
    /\ store = <<>>
    /\ main_pc = "idle"
    /\ crate_dirs = {}
    /\ patterns = <<>>
    /\ rust_files = <<>>
    /\ idx = 1
    /\ processed_count = 0
    /\ modified_count = 0
    /\ store0 = <<>>
    /\ log = <<>>
    /\ errors = 0

Init == InitFrom(Files)

\* Lines 15-29: read the file, split it, initialise the locals.
ReadFile ==
    /\ pc = "start"
    /\ content' = disk
    /\ lines' = Split(disk)
    /\ new_lines' = <<>>
    /\ i' = 0
    /\ in_test_module' = FALSE
    /\ brace_count' = 0
    /\ kept' = <<>>
    /\ seen' = <<>>
    /\ neg_at' = -1
    /\ pc' = "scan"
    /\ UNCHANGED <<disk, ret, wrote, run, disk0>>
    /\ UNCHANGED runVars

\* Lines 31-61: one iteration of the while loop.
ScanLine ==
    /\ pc = "scan"
    /\ i < Len(lines)
    /\ LET nxt == WhileBody(lines, Locals) IN
        /\ i' = nxt.i
        /\ in_test_module' = nxt.in_test_module
        /\ brace_count' = nxt.brace_count
        /\ new_lines' = IF nxt.keep THEN Append(new_lines, lines[i + 1])
                        ELSE new_lines
        /\ kept' = IF nxt.keep THEN Append(kept, i) ELSE kept
        /\ neg_at' = IF neg_at = -1 /\ nxt.in_test_module
                                    /\ nxt.brace_count < 0
                      THEN i ELSE neg_at
    /\ seen' = Append(seen, i)
    /\ UNCHANGED <<disk, pc, content, lines, ret, wrote, run, disk0>>
    /\ UNCHANGED runVars

\* Lines 63-72: the loop has ended; join, compare, write back, return.
Return ==
    /\ pc = "scan"
    /\ i >= Len(lines)
    /\ LET new_content == Join(new_lines) IN
        IF new_content # content
        THEN /\ disk' = new_content
             /\ wrote' = TRUE
             /\ ret' = TRUE
        ELSE /\ ret' = FALSE
             /\ UNCHANGED <<disk, wrote>>
    /\ pc' = "done"
    /\ UNCHANGED <<content, lines, new_lines, i, in_test_module,
                   brace_count, kept, seen, neg_at, run, disk0>>
    /\ UNCHANGED runVars

\* The tool is run again on the same file.
RunAgain ==
    /\ pc = "done"
    /\ run = 1
    /\ run' = 2
    /\ pc' = "start"
    /\ wrote' = FALSE
    /\ UNCHANGED <<disk, content, lines, new_lines, i, in_test_module,
                   brace_count, ret, kept, seen, neg_at, disk0>>
    /\ UNCHANGED runVars

Next == ReadFile \/ ScanLine \/ Return \/ RunAgain

Spec == Init /\ [][Next]_vars

-----------------------------------------------------------------------------
(* The directory tree of SpecRun *)

\* A path is the sequence of names from root_dir down; a name is a sequence
\* of tokens, its suffix last.
RootRs    == << <<"main", ".rs">> >>
CratesRs  == << <<"crates">>, <<"b", ".rs">> >>
LibRs     == << <<"crates">>, <<"a">>, <<"src">>, <<"lib", ".rs">> >>
NotesMd   == << <<"crates">>, <<"a">>, <<"notes", ".md">> >>
TestRs    == << <<"tests">>, <<"t", ".rs">> >>
DirRs     == << <<"tests">>, <<"d", ".rs">> >>
ExampleRs == << <<"examples">>, <<"e", ".rs">> >>
SwarmRs   == << <<"swarm">>, <<"deep">>, <<"s", ".rs">> >>
OtherRs   == << <<"other">>, <<"o", ".rs">> >>

\* What a tree may hold; DirRs is an empty directory, the others are files.
Leaves == { RootRs, CratesRs, LibRs, NotesMd, TestRs, DirRs, ExampleRs,
            SwarmRs, OtherRs }

\* The tree with something at every place main looks at or must ignore.
FullTree == Leaves

\* The files whose text InitRun varies in the full tree.
VariedFiles == { LibRs, TestRs, ExampleRs, SwarmRs }

\* The spec's concrete scenario: code, a test block, code.
BlockText ==
    Text(<<PairLine, Annotation, OpenLine, PairLine, CloseLine, PairLine>>)

RunTexts ==
    { BlockText,
      Text(<<PairLine, <<"x">>, <<>>>>),          \* no annotation
      Text(<<<<"x">>, Annotation, OpenLine>>) }   \* a block never closed

ProperPrefix(p, q) == Len(p) < Len(q) /\ SubSeq(q, 1, Len(p)) = p

\* Every path that exists in tree t: the leaves and the directories above.
Nodes(t) == UNION { { SubSeq(q, 1, n) : n \in 1..Len(q) } : q \in t }

\* Path.is_file(); a symbolic link to a file is a file.
IsFile(t, p) == p \in t /\ p # DirRs

\* Path.is_dir()
IsDir(t, p) == p \in Nodes(t) /\ ~IsFile(t, p)

\* Mutant of MatchRs: the pattern "*", any name.
MatchAnyName(name) == Len(name) > 0

\* fnmatch of a name against "*.rs"
MatchRs(name) == name[Len(name)] = ".rs"

\* root_dir.glob("crates/*")
GlobCrates(t) == { p \in Nodes(t) : Len(p) = 2 /\ p[1] = <<"crates">> }

\* d.rglob("*.rs"), and root_dir.glob("<d>/**/*.rs"): the paths below d, at
\* any depth, whose name matches.
RGlobRs(t, d) ==
    { p \in Nodes(t) : ProperPrefix(d, p) /\ MatchRs(p[Len(p)]) }

\* The orders in which a directory scan may yield a set of paths.
Orderings(S) ==
    { o \in [1..Cardinality(S) -> S] :
        \A a, b \in 1..Cardinality(S) : a # b => o[a] # o[b] }

\* The file a path names: open() follows the symbolic link.
Resolve(p) == IF link /\ p = TestRs THEN LibRs ELSE p

-----------------------------------------------------------------------------
(* remove_test_modules as one step, with the I/O error the file system     *)
(* raises in it: "none", "read" (open or read at lines 15-16), "open_w"    *)
(* (open at line 67, before the file is truncated) or "write" (write or    *)
(* close at lines 67-68, once the file is truncated, with `cut` tokens of  *)
(* new_content on disk).                                                   *)

\* Mutant of RemoveTestModules: no try/except, the error leaves the function.
RemoveTestModulesUncaught(text, fault, cut) ==
    IF fault = "read"
    THEN [ret |-> FALSE, text |-> text, outcome |-> "read_error",
          raised |-> TRUE]
    ELSE LET new_content == NewContent(text) IN
         IF new_content # text
         THEN IF fault = "open_w"
              THEN [ret |-> FALSE, text |-> text, outcome |-> "open_error",
                    raised |-> TRUE]
              ELSE IF fault = "write"
              THEN [ret |-> FALSE, text |-> SubSeq(new_content, 1, cut),
                    outcome |-> "write_error", raised |-> TRUE]
              ELSE [ret |-> TRUE, text |-> new_content,
                    outcome |-> "modified", raised |-> FALSE]
         ELSE [ret |-> FALSE, text |-> text, outcome |-> "unchanged",
               raised |-> FALSE]

\* Mutant of RemoveTestModules: the file is opened for writing before the
\* comparison of line 66, so an open error at line 67 leaves it empty.
RemoveTestModulesTruncFirst(text, fault, cut) ==
    IF fault = "read"
    THEN [ret |-> FALSE, text |-> text, outcome |-> "read_error",
          raised |-> FALSE]
    ELSE LET new_content == NewContent(text) IN
         IF new_content # text
         THEN IF fault = "open_w"
              THEN [ret |-> FALSE, text |-> <<>>, outcome |-> "open_error",
                    raised |-> FALSE]
              ELSE IF fault = "write"
              THEN [ret |-> FALSE, text |-> SubSeq(new_content, 1, cut),
                    outcome |-> "write_error", raised |-> FALSE]
              ELSE [ret |-> TRUE, text |-> new_content,
                    outcome |-> "modified", raised |-> FALSE]
         ELSE [ret |-> FALSE, text |-> text, outcome |-> "unchanged",
               raised |-> FALSE]

\* Lines 12-76.  The result: the value returned, the text of the file
\* afterwards, what happened, and whether an exception left the function
\* (never: line 74 catches every Exception).
RemoveTestModules(text, fault, cut) ==
    IF fault = "read"
    THEN [ret |-> FALSE, text |-> text, outcome |-> "read_error",
          raised |-> FALSE]
    ELSE LET new_content == NewContent(text) IN
         IF new_content # text
         THEN IF fault = "open_w"
              THEN [ret |-> FALSE, text |-> text, outcome |-> "open_error",
                    raised |-> FALSE]
              ELSE IF fault = "write"
              THEN [ret |-> FALSE, text |-> SubSeq(new_content, 1, cut),
                    outcome |-> "write_error", raised |-> FALSE]
              ELSE [ret |-> TRUE, text |-> new_content,
                    outcome |-> "modified", raised |-> FALSE]
         ELSE [ret |-> FALSE, text |-> text, outcome |-> "unchanged",
               raised |-> FALSE]

\* Mutant of CountModified: the count goes up for every file processed.
CountModifiedAlways(r, n) == n + 1

\* Lines 104-105
CountModified(r, n) == IF r THEN n + 1 ELSE n

-----------------------------------------------------------------------------
(* SpecRun: main *)

InitRun ==
    /\ tree \in SUBSET Leaves
    /\ link \in BOOLEAN
    /\ link => {LibRs, TestRs} \subseteq tree
    /\ LET files == { p \in tree : IsFile(tree, p) /\ Resolve(p) = p } IN
        \* every tree with the same text in every file, and the full tree
        \* with every choice of texts
        \/ store = [p \in files |-> BlockText]
        \/ /\ tree = FullTree
           /\ \E v \in [VariedFiles \cap files -> RunTexts] :
                store = [p \in files |->
                            IF p \in VariedFiles THEN v[p] ELSE BlockText]
    /\ store0 = store
    /\ main_pc = "discover"
    /\ crate_dirs = GlobCrates(tree)
    /\ patterns = << <<"tests">>, <<"examples">>, <<"swarm">> >>
    /\ rust_files = <<>>
    /\ idx = 1
    /\ processed_count = 0
    /\ modified_count = 0
    /\ log = <<>>
    /\ errors = 0
    /\ disk = <<>>
    /\ pc = "idle"
    /\ content = <<>>
    /\ lines = <<>>
    /\ new_lines = <<>>
    /\ i = 0
    /\ in_test_module = FALSE
    /\ brace_count = 0
    /\ ret = FALSE
    /\ kept = <<>>
    /\ seen = <<>>
    /\ neg_at = -1
    /\ wrote = FALSE
    /\ run = 1
    /\ disk0 = <<>>

\* Lines 88-91: one iteration of the loop over root_dir.glob("crates/*").
CrateDir ==
    /\ main_pc = "discover"
    /\ \E crate_dir \in crate_dirs :
        /\ crate_dirs' = crate_dirs \ {crate_dir}
        /\ IF IsDir(tree, crate_dir)
           THEN \E found \in Orderings(RGlobRs(tree, crate_dir)) :
                    rust_files' = rust_files \o found
           ELSE rust_files' = rust_files
    /\ UNCHANGED <<tree, link, store, main_pc, patterns, idx,
                   processed_count, modified_count, store0, log, errors>>
    /\ UNCHANGED scanVars

\* Lines 94-99: one iteration of the loop over the three patterns; after the
\* last one the counters are set and the loop of line 101 begins.
Pattern ==
    /\ main_pc = "discover"
    /\ crate_dirs = {}
    /\ patterns # <<>>
    /\ \E found \in Orderings(RGlobRs(tree, <<Head(patterns)>>)) :
            rust_files' = rust_files \o found
    /\ patterns' = Tail(patterns)
    /\ main_pc' = IF Tail(patterns) = <<>> THEN "process" ELSE "discover"
    /\ processed_count' = 0
    /\ modified_count' = 0
    /\ UNCHANGED <<tree, link, store, crate_dirs, idx, store0, log, errors>>
    /\ UNCHANGED scanVars

\* Lines 101-102 for an entry that is not a regular file.
SkipEntry ==
    /\ main_pc = "process"
    /\ idx <= Len(rust_files)
    /\ ~IsFile(tree, rust_files[idx])
    /\ idx' = idx + 1
    /\ log' = Append(log, [path |-> rust_files[idx],
                           file |-> Resolve(rust_files[idx]),
                           outcome |-> "not_a_file",
                           before |-> <<>>, after |-> <<>>,
                           touched |-> {},
                           processed |-> processed_count,
                           modified |-> modified_count])
    /\ UNCHANGED <<tree, link, store, main_pc, crate_dirs, patterns,
                   rust_files, processed_count, modified_count, store0,
                   errors>>
    /\ UNCHANGED scanVars

\* Lines 101-105 for a regular file: one iteration, the call included.
Iterate(fault, cut) ==
    /\ main_pc = "process"
    /\ idx <= Len(rust_files)
    /\ IsFile(tree, rust_files[idx])
    /\ LET file == Resolve(rust_files[idx])
           r == RemoveTestModules(store[file], fault, cut)
       IN
        /\ store' = [store EXCEPT ![file] = r.text]
        /\ processed_count' = processed_count + 1
        /\ IF r.raised
           THEN /\ main_pc' = "crashed"
                /\ UNCHANGED <<idx, modified_count>>
           ELSE /\ main_pc' = main_pc
                /\ idx' = idx + 1
                /\ modified_count' = CountModified(r.ret, modified_count)
        /\ log' = Append(log, [path |-> rust_files[idx], file |-> file,
                               outcome |-> r.outcome, before |-> store[file],
                               after |-> r.text,
                               touched |-> { p \in DOMAIN store :
                                               store'[p] # store[p] },
                               processed |-> processed_count',
                               modified |-> modified_count'])
    /\ errors' = IF fault = "none" THEN errors ELSE errors + 1
    /\ UNCHANGED <<tree, link, crate_dirs, patterns, rust_files, store0>>
    /\ UNCHANGED scanVars

\* The text line 63 would compute for the current entry.
EntryNewContent == NewContent(store[Resolve(rust_files[idx])])

EntryChanges ==
    /\ main_pc = "process"
    /\ idx <= Len(rust_files)
    /\ IsFile(tree, rust_files[idx])
    /\ EntryNewContent # store[Resolve(rust_files[idx])]

ProcessFile == Iterate("none", 0)

\* open() or read() raises at lines 15-16.
ReadError == errors < MaxErrors /\ Iterate("read", 0)

\* open(file_path, 'w') raises at line 67: the file is as it was.
OpenError == errors < MaxErrors /\ EntryChanges /\ Iterate("open_w", 0)

\* write() or the close of the with block raises at lines 67-68: the file
\* was truncated by open and holds what reached the disk.
WriteError ==
    /\ errors < MaxErrors
    /\ EntryChanges
    /\ \E cut \in 0..Len(EntryNewContent) : Iterate("write", cut)

\* Lines 107-108
Summary ==
    /\ main_pc = "process"
    /\ idx > Len(rust_files)
    /\ main_pc' = "done"
    /\ UNCHANGED <<tree, link, store, crate_dirs, patterns, rust_files, idx,
                   processed_count, modified_count, store0, log, errors>>
    /\ UNCHANGED scanVars

NextRun ==
    \/ CrateDir
    \/ Pattern
    \/ SkipEntry
    \/ ProcessFile
    \/ ReadError
    \/ OpenError
    \/ WriteError
    \/ Summary

SpecRun == InitRun /\ [][NextRun]_vars

-----------------------------------------------------------------------------
(* SpecLive: either program, run to its end.  The interpreter runs the one  *)
(* thread of the script whenever it has a next step: a call of              *)
(* remove_test_modules that has started goes on (lines 15-72), and so does  *)
(* main (lines 78-108).  The tool is run once.                              *)

LiveFiles ==
    { Text(ls) : ls \in SeqsUpTo(LineKinds, MaxLiveLines) }
        \cup OneBlockFiles \cup TwoBlockFiles \cup NestedFiles

InitLive == InitFrom(LiveFiles) \/ (InitRun /\ tree = FullTree)

NextLive == ReadFile \/ ScanLine \/ Return \/ NextRun

\* main has a next step: while discovering, patterns is not empty; while
\* processing, either an entry is left or the summary is.  Every step of
\* NextRun changes vars, so this is ENABLED <<NextRun>>_vars.
RunCanStep == main_pc \in {"discover", "process"}

\* Weak fairness of the scan's steps and of NextRun, the latter written out
\* with RunCanStep for its enabling condition.
Fairness ==
    /\ WF_vars(ReadFile \/ ScanLine \/ Return)
    /\ ([]<>(~RunCanStep) \/ []<><<NextRun>>_vars)

SpecLive == InitLive /\ [][NextLive]_vars /\ Fairness

-----------------------------------------------------------------------------
(* Vocabulary of the claims about a run of main.  log[k] records the k-th  *)
(* iteration of the loop of line 101: the entry, the file it names, what   *)
(* happened, the file's text before and after, the files whose text        *)
(* changed, and the two counters afterwards.                               *)

ErrorOutcomes == {"read_error", "open_error", "write_error"}

\* The iterations that called remove_test_modules.
Calls == { k \in 1..Len(log) : log[k].outcome # "not_a_file" }

ProcessedBefore(k) == IF k = 1 THEN 0 ELSE log[k - 1].processed

ModifiedBefore(k) == IF k = 1 THEN 0 ELSE log[k - 1].modified

\* A regular file of the tree (a symbolic link to one included).
RegularFile(p) == p \in tree \ {DirRs}

\* Iterations j < k called remove_test_modules on the same file.
SameFileTwice(j, k) ==
    /\ j \in Calls /\ k \in Calls /\ j < k
    /\ log[j].file = log[k].file

\* The k-th call left the file as it found it and did not count it modified.
NoOp(k) ==
    /\ log[k].after = log[k].before
    /\ log[k].touched = {}
    /\ log[k].modified = ModifiedBefore(k)

CountedProcessed(k) == log[k].processed = ProcessedBefore(k) + 1

ModifiedCalls(f) ==
    { k \in Calls : log[k].file = f /\ log[k].outcome = "modified" }

Processed(f) == \E k \in Calls : log[k].file = f

Errored(f) == \E k \in Calls : log[k].file = f /\ log[k].outcome \in ErrorOutcomes

WriteFailed(f) == \E k \in Calls : log[k].file = f /\ log[k].outcome = "write_error"

IsPrefixText(s, t) == Len(s) <= Len(t) /\ SubSeq(t, 1, Len(s)) = s

HasSourceSuffix(p) == LET name == p[Len(p)] IN name[Len(name)] = ".rs"

\* Below <root>/crates/<dir>/ or below <root>/tests/, examples/ or swarm/.
InScope(p) ==
    \/ Len(p) >= 3 /\ p[1] = <<"crates">>
    \/ Len(p) >= 2 /\ p[1] \in { <<"tests">>, <<"examples">>, <<"swarm">> }

Discovered == { rust_files[k] : k \in 1..Len(rust_files) }

DiscoveryDone == main_pc \in {"process", "done"}

-----------------------------------------------------------------------------
(* Claims about a run of main *)

\* C6: an error raised while reading or writing a file stays inside
\* remove_test_modules: the file is counted as processed and not as
\* modified, a file whose read failed is not written, the entries after it
\* are still visited in order, and the run goes on to the summary.
C6_ErrorsContained ==
    /\ main_pc # "crashed"
    /\ \A k \in Calls : log[k].outcome \in ErrorOutcomes =>
            /\ CountedProcessed(k)
            /\ log[k].modified = ModifiedBefore(k)
            /\ log[k].outcome = "read_error" =>
                    (log[k].after = log[k].before /\ log[k].touched = {})
    /\ \A k \in 1..Len(log) : log[k].path = rust_files[k]
    /\ main_pc = "process" => Len(log) = idx - 1
    /\ main_pc = "done" => Len(log) = Len(rust_files)
    /\ main_pc = "discover" => (crate_dirs # {} \/ patterns # <<>>)
    /\ main_pc = "process" => idx <= Len(rust_files) + 1

C6_Witness ==
    /\ main_pc = "done"
    /\ \E j \in Calls : \E k \in Calls :
        /\ j < k
        /\ log[j].outcome \in ErrorOutcomes
        /\ log[k].outcome = "modified"

C8_Counters ==
    /\ 0 <= modified_count
    /\ modified_count <= processed_count
    /\ processed_count <= Len(rust_files)
    /\ main_pc = "done" =>
        /\ processed_count =
                Cardinality({ k \in 1..Len(rust_files) :
                                RegularFile(rust_files[k]) })
        /\ modified_count =
                Cardinality({ k \in Calls :
                                /\ log[k].outcome \notin ErrorOutcomes
                                /\ log[k].after # log[k].before })

C8_Witness ==
    /\ main_pc = "done"
    /\ modified_count >= 2
    /\ processed_count > modified_count
    /\ Len(rust_files) > processed_count

\* Every file not yet processed holds its original text, every call changed
\* no file but its own, and the entries are taken in discovery order.
FrameOfRun ==
    /\ \A f \in DOMAIN store : ~Processed(f) => store[f] = store0[f]
    /\ \A k \in 1..Len(log) :
        /\ log[k].touched \subseteq {log[k].file}
        /\ log[k].path = rust_files[k]

\* C9 as stated: files are transformed one at a time in discovery order;
\* at any point a processed file holds its transformed text, or its original
\* text if it had no annotation or errored, an unprocessed file holds its
\* original text, and no call changes another file.
C9_ProcessedOrUntouched ==
    /\ FrameOfRun
    /\ \A f \in DOMAIN store : Processed(f) =>
            \/ store[f] = NewContent(store0[f])
            \/ store[f] = store0[f] /\ Errored(f)

\* C9 amended: a file whose write failed once it was opened for writing
\* holds a prefix of its transformed text.
C9_ProcessedOrUntouchedOrCut ==
    /\ FrameOfRun
    /\ \A f \in DOMAIN store : Processed(f) =>
            \/ store[f] = NewContent(store0[f])
            \/ store[f] = store0[f] /\ Errored(f)
            \/ WriteFailed(f) /\ IsPrefixText(store[f], NewContent(store0[f]))

C9_Witness ==
    /\ main_pc = "process"
    /\ \E f \in DOMAIN store : \E g \in DOMAIN store : \E h \in DOMAIN store :
        /\ WriteFailed(f) /\ store[f] # store0[f]
        /\ store[f] # NewContent(store0[f])
        /\ Processed(g) /\ ~Errored(g) /\ store[g] # store0[g]
        /\ ~Processed(h) /\ h \in Discovered
        /\ NewContent(store0[h]) # store0[h]

\* C10: discovery returns every file with the source suffix below
\* crates/<dir>/, tests/, examples/ and swarm/ and no other file; a
\* directory that is missing adds nothing and raises nothing.
C10_Discovery ==
    /\ main_pc # "crashed"
    /\ Discovered \subseteq Nodes(tree)
    /\ DiscoveryDone =>
        /\ \A p \in tree :
                (RegularFile(p) /\ HasSourceSuffix(p) /\ InScope(p))
                    => p \in Discovered
        /\ \A p \in Discovered :
                RegularFile(p) => (HasSourceSuffix(p) /\ InScope(p))

C10_Witness ==
    /\ main_pc = "process"
    /\ idx = 1
    /\ {LibRs, ExampleRs, SwarmRs, OtherRs, CratesRs, RootRs, NotesMd}
            \subseteq tree
    /\ TestRs \notin tree /\ DirRs \notin tree
    /\ {LibRs, ExampleRs, SwarmRs} \subseteq Discovered

-----------------------------------------------------------------------------
(* Vocabulary of the claims about one file.  Positions are 1-based line    *)
(* numbers; kept holds 0-based cursor values.                              *)

RECURSIVE StripLeft(_)
StripLeft(l) == IF l # <<>> /\ Head(l) = " " THEN StripLeft(Tail(l)) ELSE l

\* optional leading whitespace, then #[cfg(test)]
IsAnnotationLine(l) == LET s == StripLeft(l) IN s # <<>> /\ Head(s) = "#"

AnnotationLines(ls) == { k \in 1..Len(ls) : IsAnnotationLine(ls[k]) }

RECURSIVE Flatten(_)
Flatten(ls) == IF ls = <<>> THEN <<>> ELSE Head(ls) \o Flatten(Tail(ls))

IsBrace(ch) == ch \in {"{", "}"}

BracesOf(ls) == SelectSeq(Flatten(ls), IsBrace)

RECURSIVE Depth(_)
\* open braces minus close braces
Depth(bs) ==
    IF bs = <<>> THEN 0
    ELSE Depth(Tail(bs)) + (IF Head(bs) = "{" THEN 1 ELSE -1)

\* Lines a..c are a well-formed test block: line a is the annotation, the
\* braces of lines a+1..c balance, the depth is positive from the first
\* brace to the last, and the last brace (the matching outermost close) is
\* on line c.
WellFormedBlock(ls, a, c) ==
    /\ 1 <= a /\ a < c /\ c <= Len(ls)
    /\ IsAnnotationLine(ls[a])
    /\ \A k \in (a + 1)..c : ~IsAnnotationLine(ls[k])
    /\ LET bs == BracesOf(SubSeq(ls, a + 1, c)) IN
        /\ bs # <<>>
        /\ Depth(bs) = 0
        /\ \A k \in 1..(Len(bs) - 1) : Depth(SubSeq(bs, 1, k)) > 0
    /\ BracesOf(<<ls[c]>>) # <<>>

\* The file holds exactly one test block, lines a..c.
OneBlock(ls, a, c) == WellFormedBlock(ls, a, c) /\ AnnotationLines(ls) = {a}

\* The brace pairs nested inside the module body of block a..c.
NestedPairs(ls, a, c) ==
    Len(SelectSeq(BracesOf(SubSeq(ls, a + 1, c)), LAMBDA ch : ch = "{")) - 1

\* The file holds exactly two test blocks, a1..c1 and a2..c2, with at least
\* one line between them.
TwoBlocks(ls, a1, c1, a2, c2) ==
    /\ WellFormedBlock(ls, a1, c1)
    /\ WellFormedBlock(ls, a2, c2)
    /\ c1 + 1 < a2
    /\ AnnotationLines(ls) = {a1, a2}

KeptPositions == { kept[k] + 1 : k \in 1..Len(kept) }

FirstDone == pc = "done" /\ run = 1

-----------------------------------------------------------------------------
(* Claims *)

\* C1: a file with exactly one well-formed test block comes out as the lines
\* before the annotation followed by the lines after the closing-brace line,
\* is written back so, and is reported as modified.
C1_OneBlockRemovedExactly ==
    FirstDone =>
        \A a \in AnnotationLines(lines) : \A c \in (a + 1)..Len(lines) :
            OneBlock(lines, a, c) =>
                /\ disk = Text(SubSeq(lines, 1, a - 1)
                                    \o SubSeq(lines, c + 1, Len(lines)))
                /\ ret = TRUE

\* C2: with two well-formed test blocks separated by one or more ordinary
\* lines, no line of either block is in the output and every line between
\* them is.
C2_TwoBlocksGapPreserved ==
    FirstDone =>
        \A a1 \in AnnotationLines(lines) : \A a2 \in AnnotationLines(lines) :
            \A c1 \in (a1 + 1)..(a2 - 2) : \A c2 \in (a2 + 1)..Len(lines) :
                TwoBlocks(lines, a1, c1, a2, c2) =>
                    /\ KeptPositions \cap ((a1..c1) \cup (a2..c2)) = {}
                    /\ (c1 + 1)..(a2 - 1) \subseteq KeptPositions
                    /\ new_lines = [k \in 1..Len(kept) |-> lines[kept[k] + 1]]

\* C3: with one test block holding N nested brace pairs, no line position
\* from the annotation line to the closing-brace line is ever copied to the
\* output.
C3_BlockSpanNeverCopied ==
    (run = 1 /\ pc # "start") =>
        \A a \in AnnotationLines(lines) : \A c \in (a + 1)..Len(lines) :
            OneBlock(lines, a, c) => KeptPositions \cap (a..c) = {}

C3_Witness ==
    /\ FirstDone
    /\ \E a \in AnnotationLines(lines) : \E c \in (a + 1)..Len(lines) :
        /\ OneBlock(lines, a, c)
        /\ NestedPairs(lines, a, c) >= 2
        /\ a > 1
        /\ c + 1 < Len(lines)
        /\ KeptPositions # {}

\* C4: the transformation is idempotent: what the first application leaves
\* in the file is returned unchanged by the second, which reports
\* unmodified and does not write.
C4_Idempotent ==
    /\ FirstDone => disk = Text(new_lines)
    /\ (run = 2 /\ pc # "start") => content = disk /\ ~wrote
    /\ (run = 2 /\ pc = "done") =>
            /\ Text(new_lines) = content
            /\ ret = FALSE

C4_Witness ==
    /\ run = 2
    /\ pc = "done"
    /\ disk # disk0
    /\ Len(new_lines) >= 2
    /\ \E k \in 1..Len(new_lines) : BracesOf(<<new_lines[k]>>) # <<>>

\* C5: a file none of whose lines matches the annotation is returned as it
\* was, False is returned, and the file is not written.
C5_NoAnnotationUntouched ==
    (run = 1 /\ AnnotationLines(Split(disk0)) = {}) =>
        /\ ~wrote
        /\ disk = disk0
        /\ pc = "done" => (Text(new_lines) = disk0 /\ ret = FALSE)

C5_Witness ==
    /\ FirstDone
    /\ AnnotationLines(lines) = {}
    /\ Len(lines) >= 3
    /\ \E k \in 1..Len(lines) : \E j \in 1..Len(lines[k]) : lines[k][j] = "#"
    /\ \E k \in 1..Len(lines) : BracesOf(<<lines[k]>>) # <<>>

\* Two test blocks back to back: the second annotation is on the line right
\* after the line that closes the first block.
AdjacentBlocks(ls, a1, c1, c2) ==
    /\ WellFormedBlock(ls, a1, c1)
    /\ WellFormedBlock(ls, c1 + 1, c2)
    /\ AnnotationLines(ls) = {a1, c1 + 1}

\* C11: the line right after the line that closes a test block is scanned
\* as a line outside any block: it is copied if it is no annotation, and if
\* it is one the block it opens is removed too, so that of two back-to-back
\* blocks nothing is left; and the cursor enters the loop body with every
\* line position exactly once.
C11_LineAfterCloseScanned ==
    /\ (run = 1 /\ pc \in {"scan", "done"}) =>
            \A k \in 1..Len(seen) : seen[k] = k - 1
    /\ FirstDone =>
        /\ Len(seen) = Len(lines)
        /\ \A a \in AnnotationLines(lines) : \A c \in (a + 1)..Len(lines) :
            /\ (OneBlock(lines, a, c) /\ c < Len(lines)) =>
                    c + 1 \in KeptPositions
            /\ \A c2 \in (c + 2)..Len(lines) :
                    AdjacentBlocks(lines, a, c, c2) =>
                        KeptPositions \cap (a..c2) = {}

\* Lines a..c are a test block with annotated modules inside it: line a is
\* the outer annotation, the braces of lines a+1..c balance with the last
\* of them, on line c, matching the first, and every other annotation line
\* of the file lies between the two.
NestedBlock(ls, a, c) ==
    /\ 1 <= a /\ a < c /\ c <= Len(ls)
    /\ IsAnnotationLine(ls[a])
    /\ AnnotationLines(ls) \subseteq a..c
    /\ AnnotationLines(ls) # {a}
    /\ LET bs == BracesOf(SubSeq(ls, a + 1, c)) IN
        /\ bs # <<>>
        /\ Depth(bs) = 0
        /\ \A k \in 1..(Len(bs) - 1) : Depth(SubSeq(bs, 1, k)) > 0
    /\ BracesOf(<<ls[c]>>) # <<>>

\* C12: the annotation is matched only outside a test block.  While the
\* cursor is inside a block that holds a nested annotated module the scan
\* is in the block and brace_count is the balance of the braces since the
\* outer annotation (the nested annotation does not reset it), and no line
\* of the outer block, its closing line included, is copied.
C12_NestedAnnotationIgnored ==
    (run = 1 /\ pc \in {"scan", "done"}) =>
        \A a \in AnnotationLines(lines) : \A c \in (a + 1)..Len(lines) :
            NestedBlock(lines, a, c) =>
                /\ (pc = "scan" /\ a <= i /\ i < c) =>
                        /\ in_test_module
                        /\ brace_count =
                                Depth(BracesOf(SubSeq(lines, a + 1, i)))
                /\ KeptPositions \cap (a..c) = {}

\* After the annotation on line a, the last of the file, no close-brace
\* brings the depth counted from 0 back to 0.
Unclosed(ls, a) ==
    /\ a \in AnnotationLines(ls)
    /\ \A k \in AnnotationLines(ls) : k <= a
    /\ LET bs == BracesOf(SubSeq(ls, a + 1, Len(ls))) IN
        \A k \in 1..Len(bs) :
            bs[k] = "}" => Depth(SubSeq(bs, 1, k)) # 0

\* C13: when the braces after an annotation line never bring the depth back
\* to 0 before the end of the file, no line from the annotation line to the
\* end of the file is in the output, the call ends without an error, and
\* the truncated text is written and the file reported as modified.
C13_UnclosedBlockTruncates ==
    FirstDone =>
        \A a \in AnnotationLines(lines) :
            Unclosed(lines, a) =>
                /\ KeptPositions \cap (a..Len(lines)) = {}
                /\ wrote
                /\ ret = TRUE
                /\ disk = Text(new_lines)

\* C14: once an iteration has ended inside a test block with a negative
\* brace_count, the scan stays in the block to the end of the file and
\* none of the later lines is copied.
C14_NoRecovery ==
    (run = 1 /\ pc \in {"scan", "done"} /\ neg_at >= 0) =>
        /\ in_test_module
        /\ \A p \in KeptPositions : p <= neg_at

OpenBraces(line) == Len(SelectSeq(line, LAMBDA ch : ch = "{"))

\* C14 as amended: an iteration that starts inside a test block with a
\* negative brace_count copies nothing, and it leaves the block only on a
\* line with enough open-braces to make the depth positive before a
\* close-brace brings it to 0.
C14_NoRecoveryWhileNegative ==
    [][ (pc = "scan" /\ pc' = "scan" /\ in_test_module /\ brace_count < 0) =>
            /\ kept' = kept
            /\ new_lines' = new_lines
            /\ in_test_module' \/ OpenBraces(lines[i + 1]) >= 1 - brace_count
      ]_vars

C14_Witness ==
    /\ FirstDone
    /\ neg_at >= 0
    /\ ~in_test_module
    /\ Cardinality(AnnotationLines(lines)) = 1

RECURSIVE IsSubsequence(_, _)
\* s is t with some elements left out
IsSubsequence(s, t) ==
    IF s = <<>> THEN TRUE
    ELSE IF t = <<>> THEN FALSE
    ELSE IF Head(s) = Head(t) THEN IsSubsequence(Tail(s), Tail(t))
    ELSE IsSubsequence(s, Tail(t))

\* C16: the output lines are the input lines at strictly increasing
\* positions, unaltered (an order-preserving subsequence), none of them
\* matches the annotation, and what the call leaves in the file is their
\* join.
C16_OutputSubsequence ==
    (pc \in {"scan", "done"}) =>
        /\ IsSubsequence(new_lines, lines)
        /\ Len(kept) = Len(new_lines)
        /\ \A k \in 1..Len(kept) :
            /\ kept[k] + 1 \in 1..Len(lines)
            /\ new_lines[k] = lines[kept[k] + 1]
            /\ k > 1 => kept[k - 1] < kept[k]
        /\ \A k \in 1..Len(new_lines) : ~IsAnnotationLine(new_lines[k])
        /\ pc = "done" => disk = Text(new_lines)

C16_Witness ==
    /\ FirstDone
    /\ Len(new_lines) >= 2
    /\ Len(new_lines) < Len(lines)
    /\ \E k \in 1..Len(lines) : lines[k] = <<" ", "#">>
    /\ \E k \in 1..Len(new_lines) : BracesOf(<<new_lines[k]>>) # <<>>

\* C17: every iteration of the scan loop starts with the cursor below the
\* number of lines and ends with it strictly greater than before, and the
\* call returns only with the cursor at or beyond the number of lines; every
\* iteration of main's loop moves to the next entry of rust_files, and at
\* the summary each entry has been visited once, in order; and whichever
\* of the two is running, the call or main, reaches its end.
C17_Terminates ==
    /\ [][ (pc = "scan" /\ pc' = "scan") => (i < Len(lines) /\ i' > i) ]_vars
    /\ [](pc = "done" => i >= Len(lines))
    /\ [][ (main_pc = "process" /\ main_pc' = "process") =>
                (idx <= Len(rust_files) /\ idx' = idx + 1) ]_vars
    /\ [](main_pc = "done" =>
            log = [k \in 1..Len(rust_files) |-> log[k]]
            /\ \A k \in 1..Len(rust_files) : log[k].path = rust_files[k])
    /\ (pc \in {"start", "scan"} \/ main_pc \in {"discover", "process"})
            ~> (pc = "done" \/ main_pc = "done")

C17_Witness ==
    /\ FirstDone
    /\ i > Len(lines)
    /\ Len(seen) < Len(lines)
    /\ Cardinality(AnnotationLines(Split(disk0))) >= 2

=============================================================================
